---- MODULE Spec2Model ----
(***************************************************************************)
(* Model of src/app.js: the Express backend that sends submitted text to   *)
(* Watson Personality Insights, stores the profile per session in          *)
(* Cloudant, and renders it as a flat description list (/getDescription)   *)
(* and as chart data (/getGraph/:watsonId).                                *)
(*                                                                         *)
(* JavaScript values whose type matters are tagged records:                *)
(*   Undefined, Num(n), Str(s), Bool(b), Arr(<<...>>), and objects         *)
(*   [type |-> "object", ...].  Two values of different types are          *)
(*   different records, so === is record equality.                         *)
(* A number is a fixed-point value: Num(n) stands for n / PctScale.        *)
(***************************************************************************)
EXTENDS Integers, Sequences, FiniteSets, TLC

VARIABLES db, req, out

vars == <<db, req, out>>

(***************************************************************************)
(* JavaScript values                                                       *)
(***************************************************************************)
Undefined == [type |-> "undefined"]

Num(n) == [type |-> "number", num |-> n]

Str(s) == [type |-> "string", str |-> s]

Bool(b) == [type |-> "boolean", bool |-> b]

Arr(s) == [type |-> "array", elems |-> s]

\* Array.isArray(v)
IsArray(v) == v.type = "array"

\* ToBoolean(v): what `if (v)` and `a && b` test.
Truthy(v) ==
    CASE v.type = "undefined" -> FALSE
      [] v.type = "number"    -> v.num # 0
      [] v.type = "string"    -> v.str # ""
      [] v.type = "boolean"   -> v.bool
      [] OTHER                -> TRUE

\* A ProfileNode as the analysis service returns it; an absent property
\* reads as Undefined.
Node(id, name, percentage, children) ==
    [type |-> "object", id |-> id, name |-> name,
     percentage |-> percentage, children |-> children]

(***************************************************************************)
(* Bounds and program constants                                            *)
(***************************************************************************)
\* Nodes in a generated profile forest.
MaxNodes == 4

\* Children of a generated chart node.
MaxWide == 7

\* setContent requests in one run.
MaxReq == 2

\* Percentages are multiples of 1/PctScale: (p * 100).toFixed(2) is exact.
PctScale == 10000

\* appEnv.url
baseURL == "http://app"

idsWithGraphs ==
    <<"personality", "Openness", "Conscientiousness", "Extraversion",
      "Agreeableness", "Neuroticism", "needs", "values">>

colors == <<"#4178BD", "#9854D4", "#01B4A0", "#D74009", "#323232", "#EDC01C">>

highlights == <<"#5596E6", "#AF6EE8", "#41D6C3", "#FF5006", "#555555", "#FAE249">>

Sessions == {"s1", "s2"}

(***************************************************************************)
(* Tree Flattener: /getDescription                                         *)
(***************************************************************************)
\* Number.prototype.toFixed(2) of h / 100, h >= 0.
toFixed2(h) ==
    ToString(h \div 100) \o "." \o
    (IF h % 100 < 10 THEN "0" ELSE "") \o ToString(h % 100)

\* percentage * 100, in hundredths.
Times100(n) == (n * 100 * 100) \div PctScale

formatPercentage(percentage) ==
    IF Truthy(percentage)
    THEN Str(toFixed2(Times100(percentage.num)) \o "%")
    ELSE Undefined

\* idsWithGraphs.indexOf(id) > -1
InIdsWithGraphs(id) == \E k \in 1..Len(idsWithGraphs) : idsWithGraphs[k] = id

createChildFromJSON_allURL(json, nestLevel) ==
    [id          |-> json.id,
     name        |-> json.name,
     value       |-> formatPercentage(json.percentage),
     type        |-> ToString(nestLevel + 1),
     hasChildren |-> IF json.children # Undefined THEN "true" ELSE "false",
     graphURL    |-> Str(baseURL \o "/getGraph/" \o json.id)]

createChildFromJSON(json, nestLevel) ==
    [id          |-> json.id,
     name        |-> json.name,
     value       |-> formatPercentage(json.percentage),
     type        |-> ToString(nestLevel + 1),
     hasChildren |-> IF json.children # Undefined THEN "true" ELSE "false",
     graphURL    |-> IF InIdsWithGraphs(json.id)
                     THEN Str(baseURL \o "/getGraph/" \o json.id)
                     ELSE Undefined]

RECURSIVE parseChildren_post(_, _)
parseChildren_post(itemRoot, nestLevel) ==
    LET loop[i \in Nat] ==
            IF i > Len(itemRoot.elems) THEN <<>>
            ELSE LET childJSON == itemRoot.elems[i]
                     child     == createChildFromJSON(childJSON, nestLevel)
                     children  == parseChildren_post(childJSON.children, nestLevel + 1)
                 IN  children \o <<child>> \o loop[i + 1]
    IN  IF Truthy(itemRoot) /\ IsArray(itemRoot) THEN loop[1] ELSE <<>>

RECURSIVE parseChildren(_, _)
parseChildren(itemRoot, nestLevel) ==
    LET loop[i \in Nat] ==
            IF i > Len(itemRoot.elems) THEN <<>>
            ELSE LET childJSON == itemRoot.elems[i]
                     child     == createChildFromJSON(childJSON, nestLevel)
                     children  == parseChildren(childJSON.children, nestLevel + 1)
                 IN  <<child>> \o children \o loop[i + 1]
    IN  IF Truthy(itemRoot) /\ IsArray(itemRoot) THEN loop[1] ELSE <<>>

isHeader(item) == item.type = "1"

isSubheader(item) == item.type = "3" /\ item.hasChildren = "true"

isLeaf(item) == item.hasChildren = "false" /\ (item.type = "3" \/ item.type = "4")

\* items.filter(function (item) { return item.type !== '2'; })
FilterItems_three(items) == SelectSeq(items, LAMBDA item : item.type # "3")

FilterItems(items) == SelectSeq(items, LAMBDA item : item.type # "2")

\* The body of items.forEach(...): the item after the callback ran on it.
AnnotateItem_noSession(item, sessionID) ==
    [id          |-> item.id,
     name        |-> item.name,
     value       |-> item.value,
     type        |-> item.type,
     hasChildren |-> item.hasChildren,
     graphURL    |-> IF Truthy(item.graphURL)
                     THEN Str(item.graphURL.str \o "/?sessionId=")
                     ELSE item.graphURL,
     showGraph   |-> IF Truthy(item.graphURL) THEN Str("true") ELSE Str("false"),
     isHeader    |-> isHeader(item),
     isSubheader |-> isSubheader(item),
     isLeaf      |-> isLeaf(item)]

AnnotateItem(item, sessionID) ==
    [id          |-> item.id,
     name        |-> item.name,
     value       |-> item.value,
     type        |-> item.type,
     hasChildren |-> item.hasChildren,
     graphURL    |-> IF Truthy(item.graphURL)
                     THEN Str(item.graphURL.str \o "/?sessionId=" \o sessionID)
                     ELSE item.graphURL,
     showGraph   |-> IF Truthy(item.graphURL) THEN Str("true") ELSE Str("false"),
     isHeader    |-> isHeader(item),
     isSubheader |-> isSubheader(item),
     isLeaf      |-> isLeaf(item)]

parseDescriptionFromWatsonResponse(sessionID, response) ==
    LET tree   == response.tree.children
        parsed == parseChildren(tree, 0)
        items  == FilterItems(parsed)
    IN  [n \in 1..Len(items) |-> AnnotateItem(items[n], sessionID)]

(***************************************************************************)
(* Subtree Locator and chart data: /getGraph/:watsonId                     *)
(***************************************************************************)
RECURSIVE getChildWithId_deep(_, _)
getChildWithId_deep(id, itemRoot) ==
    LET loop[i \in Nat] ==
            IF i > Len(itemRoot.elems) THEN Undefined
            ELSE LET child == itemRoot.elems[i]
                     found == getChildWithId_deep(id, child.children)
                 IN  IF Truthy(found) THEN found
                     ELSE IF child.id = id
                     THEN IF Truthy(child.children) /\ Len(child.children.elems) = 1
                          THEN child.children.elems[1]
                          ELSE child
                     ELSE loop[i + 1]
    IN  IF Truthy(itemRoot) /\ IsArray(itemRoot) THEN loop[1] ELSE Undefined

RECURSIVE Unwrap_all(_)
Unwrap_all(child) ==
    IF Truthy(child.children) /\ Len(child.children.elems) = 1
    THEN Unwrap_all(child.children.elems[1])
    ELSE child

\* Lines 344-348: what a matched node is returned as.
Unwrap(child) ==
    IF Truthy(child.children) /\ Len(child.children.elems) = 1
    THEN child.children.elems[1]
    ELSE child

RECURSIVE getChildWithId(_, _)
getChildWithId(id, itemRoot) ==
    LET loop[i \in Nat] ==
            IF i > Len(itemRoot.elems) THEN Undefined
            ELSE LET child == itemRoot.elems[i]
                 IN  IF child.id = id
                     THEN Unwrap(child)
                     ELSE LET found == getChildWithId(id, child.children)
                          IN  IF Truthy(found) THEN found ELSE loop[i + 1]
    IN  IF Truthy(itemRoot) /\ IsArray(itemRoot) THEN loop[1] ELSE Undefined

\* (child['percentage'] * 100).toFixed(2); undefined * 100 is NaN.
ChartValue(percentage) ==
    IF percentage.type = "number"
    THEN toFixed2(Times100(percentage.num))
    ELSE "NaN"

\* colors[i % colors.length], i counted from 0.
PaletteAt_five(palette, i) == palette[(i % (Len(palette) - 1)) + 1]

PaletteAt(palette, i) == palette[(i % Len(palette)) + 1]

\* Reading children.length of an undefined children throws a TypeError.
createChartData(rootJSON) ==
    LET children == rootJSON.children
    IN  IF children = Undefined
        THEN [type |-> "throw", error |-> "TypeError"]
        ELSE Arr([n \in 1..Len(children.elems) |->
                    [value     |-> ChartValue(children.elems[n].percentage),
                     color     |-> PaletteAt(colors, n - 1),
                     highlight |-> PaletteAt(highlights, n - 1),
                     label     |-> children.elems[n].name]])

(***************************************************************************)
(* Session store (Cloudant) and the stored profile                         *)
(***************************************************************************)
\* JSON.stringify(v) is a non-empty string; it is kept as the value it
\* denotes.  A property that is undefined is not written, and reads back as
\* undefined, so JSON.parse gives back the value on every profile modelled.
JSONstringify(v) == [type |-> "json", json |-> v]

JSONparse(s) == s.json

\* The profile object insights.profile hands to its callback.
Profile(itemRoot) == [type |-> "object", tree |-> [children |-> itemRoot]]

\* new Date().toLocaleString(): the time of the write, not modelled further.
Now == "date"

\* A stored session document at revision rev.
Doc(rev, sessionID, content, response) ==
    [type |-> "object", rev |-> rev, sessionID |-> sessionID,
     content |-> content, response |-> response, created |-> Now]

(***************************************************************************)
(* Profiles the analysis service can return                                *)
(***************************************************************************)
Labels ==
    { [id |-> "needs", name |-> "Needs", percentage |-> Undefined],
      [id |-> "Zeal",  name |-> "Zeal",  percentage |-> Num(4212)] }

RECURSIVE ForestsOfSize(_)
\* All ordered forests of exactly m nodes labelled from Labels; a leaf has
\* either no children property or an empty children list.
ForestsOfSize(m) ==
    IF m = 0 THEN {<<>>}
    ELSE UNION { { <<Node(l.id, l.name, l.percentage, ch)>> \o rest :
                     l \in Labels,
                     ch \in (IF j = 1 THEN {Undefined, Arr(<<>>)}
                             ELSE {Arr(f) : f \in ForestsOfSize(j - 1)}),
                     rest \in ForestsOfSize(m - j) } : j \in 1..m }

\* tree.children: absent, or a forest of at most n nodes.
ShapeRoots(n) ==
    {Undefined} \cup UNION { {Arr(f) : f \in ForestsOfSize(m)} : m \in 0..n }

\* One charted trait over the whole range of percentages.
PctRoots ==
    { Arr(<<Node("Openness", "Openness", Num(n), Undefined)>>) : n \in 0..PctScale }

RECURSIVE LeafSeqs(_)
LeafSeqs(k) ==
    IF k = 0 THEN {<<>>}
    ELSE { s \o <<Node(l.id, l.name, l.percentage, Undefined)>> :
             s \in LeafSeqs(k - 1), l \in Labels }

\* One chart node with up to n children.
WideRoots(n) ==
    UNION { { Arr(<<Node("values", "Values", Undefined, Arr(kids))>>) :
                kids \in LeafSeqs(k) } : k \in 0..n }

\* Trait ids a client may ask a chart for.
WatsonIds == {"needs", "Zeal", "values", "Absent"}

(***************************************************************************)
(* GET handlers                                                            *)
(***************************************************************************)
NoOut == [route |-> "none"]

\* getLatestResponse, lines 292-309: db.get answers with an error (always
\* when there is no document) or with the document.
getLatestResponse(sessionID, err) ==
    IF err \/ db[sessionID] = Undefined THEN Undefined
    ELSE db[sessionID].response

\* getLatestInsightsJSON, lines 281-290.
getLatestInsightsJSON(sessionID, err) ==
    LET response == getLatestResponse(sessionID, err)
    IN  IF Truthy(response) THEN JSONparse(response) ELSE response

\* sendPostError
PostError(message) ==
    [status |-> 400, json |-> [title |-> "Error", description |-> message]]

\* app.get('/getDescription'), lines 185-195.
GetDescription(sessionID, err) ==
    LET insights == getLatestInsightsJSON(sessionID, err)
    IN  /\ out' = IF Truthy(insights)
                  THEN [route     |-> "getDescription",
                        sessionId |-> sessionID,
                        insights  |-> insights,
                        parsed    |-> parseChildren(insights.tree.children, 0),
                        status    |-> 200,
                        items     |-> parseDescriptionFromWatsonResponse(sessionID, insights)]
                  ELSE [route     |-> "getDescription",
                        sessionId |-> sessionID,
                        insights  |-> insights,
                        parsed    |-> <<>>,
                        status    |-> 400,
                        items     |-> <<>>]
        /\ UNCHANGED <<db, req>>

\* app.get('/getGraph/:watsonId'), lines 314-336.  raised names the
\* exception that left the db.get callback; no response is sent then.
GetGraph(sessionID, watsonId, err) ==
    LET insights == getLatestInsightsJSON(sessionID, err)
        child    == IF Truthy(insights)
                    THEN getChildWithId(watsonId, insights.tree.children)
                    ELSE Undefined
        data     == IF Truthy(child) THEN createChartData(child) ELSE Undefined
    IN  /\ out' = [route     |-> "getGraph",
                   sessionId |-> sessionID,
                   watsonId  |-> watsonId,
                   insights  |-> insights,
                   child     |-> child,
                   raised    |-> IF data.type = "throw" THEN data.error ELSE "",
                   status    |-> IF data.type = "throw" THEN 0
                                 ELSE IF Truthy(child) THEN 200 ELSE 404,
                   data      |-> IF data.type = "array" THEN data.elems ELSE <<>>]
        /\ UNCHANGED <<db, req>>

(***************************************************************************)
(* POST /setContent                                                        *)
(***************************************************************************)
\* A request slot: the query's sessionId, the body's form, and where the
\* request stands in its chain of callbacks.
NewReq(pc) ==
    [pc |-> pc, sessionId |-> Undefined, form |-> Undefined,
     profileErr |-> FALSE, response |-> Undefined, doc |-> Undefined,
     insert |-> "none", res |-> Undefined]

IdleReq == NewReq("idle")

Form(content) == [type |-> "object", content |-> content]

\* req.query.sessionId and req.body['form'] of a request.
QuerySessionIds == {Undefined} \cup {Str(s) : s \in Sessions}

Forms == {Undefined, Form(Undefined), Form(Str("")), Form(Str("text"))}

\* What the analysis service answers with.
AnalysisRoots == { Arr(<<Node(l.id, l.name, l.percentage, Undefined)>>) : l \in Labels }

isSessionIDGiven(sessionId) == sessionId # Undefined

\* body['form'] && body['form']['content']
isContentGiven(form) == Truthy(form) /\ Truthy(form.content)

\* sendPostSuccess
PostSuccess == [status |-> 200, json |-> Undefined]

\* app.post('/setContent'), lines 69-85, with checkSetContentRequestValidity
\* and the start of processContentUnchecked: an invalid request is answered
\* at once, a valid one calls insights.profile.
PostSetContent(r, sessionId, form) ==
    /\ req[r].pc = "idle"
    /\ req' = [req EXCEPT ![r] =
                 IF isSessionIDGiven(sessionId)
                 THEN IF isContentGiven(form)
                      THEN [NewReq("profile") EXCEPT
                              !.sessionId = sessionId, !.form = form]
                      ELSE [NewReq("done") EXCEPT
                              !.sessionId = sessionId, !.form = form,
                              !.res = PostError("Invalid content!")]
                 ELSE [NewReq("done") EXCEPT
                         !.sessionId = sessionId, !.form = form,
                         !.res = PostError("Invalid session ID!")]]
    /\ UNCHANGED <<db, out>>

\* The callback of insights.profile, lines 141-152: an error is answered
\* with 400, a profile is serialised and updateDatabaseContent calls db.get.
ProfileCallback(r, err, itemRoot) ==
    /\ req[r].pc = "profile"
    /\ req' = [req EXCEPT ![r] =
                 IF err
                 THEN [@ EXCEPT !.pc = "done", !.profileErr = TRUE,
                                !.res = PostError("Could not fetch Personality Insights")]
                 ELSE [@ EXCEPT !.pc = "get",
                                !.response = JSONstringify(Profile(itemRoot))]]
    /\ UNCHANGED <<db, out>>

\* The callback of db.get, lines 158-179: the stored document (with its
\* revision) or, on an error or a missing document, a new one without
\* revision (rev 0) gets the content and the response, and db.insert is
\* called.
DbGetCallback(r, err) ==
    /\ req[r].pc = "get"
    /\ LET sessionID == req[r].sessionId.str
           data      == IF err \/ db[sessionID] = Undefined
                        THEN Undefined ELSE db[sessionID]
           rev       == IF Truthy(data) THEN data.rev ELSE 0
       IN  req' = [req EXCEPT ![r] =
                     [@ EXCEPT !.pc = "insert",
                               !.doc = Doc(rev, sessionID, req[r].form.content.str,
                                           req[r].response)]]
    /\ UNCHANGED <<db, out>>

\* The store handles the insert of line 172: it writes the document when
\* the revision sent is the stored one (none for a new document) and
\* rejects it otherwise; reply says whether the store is reachable ("ok"),
\* unreachable ("down") or writes but its answer is lost ("lost").
StoreInsert(r, reply) ==
    /\ req[r].pc = "insert"
    /\ LET sessionID == req[r].sessionId.str
           doc       == req[r].doc
           current   == IF db[sessionID] = Undefined THEN 0 ELSE db[sessionID].rev
           written   == reply # "down" /\ doc.rev = current
       IN  /\ db' = IF written
                    THEN [db EXCEPT ![sessionID] = [doc EXCEPT !.rev = current + 1]]
                    ELSE db
           /\ req' = [req EXCEPT ![r] =
                        [@ EXCEPT !.pc = "inserted",
                                  !.insert = IF written /\ reply = "ok"
                                             THEN "ok" ELSE "error"]]
    /\ UNCHANGED out

InsertCallback_always200(r) ==
    /\ req[r].pc = "inserted"
    /\ req' = [req EXCEPT ![r] = [@ EXCEPT !.pc = "done", !.res = PostSuccess]]
    /\ UNCHANGED <<db, out>>

\* The callback of db.insert, lines 172-178, and with it the handlers of
\* lines 148-150 and 75-82: 400 on an error, 200 otherwise.
InsertCallback(r) ==
    /\ req[r].pc = "inserted"
    /\ req' = [req EXCEPT ![r] =
                 [@ EXCEPT !.pc = "done",
                           !.res = IF req[r].insert = "error"
                                   THEN PostError("Could not fetch Personality Insights")
                                   ELSE PostSuccess]]
    /\ UNCHANGED <<db, out>>

\* The server after initializeDatabase, its store empty.
Init ==
    /\ db = [s \in Sessions |-> Undefined]
    /\ req = [r \in 1..MaxReq |-> IdleReq]
    /\ out = NoOut

Next ==
    \E r \in 1..MaxReq :
        \/ \E sessionId \in QuerySessionIds, form \in Forms :
             PostSetContent(r, sessionId, form)
        \/ \E err \in BOOLEAN, itemRoot \in AnalysisRoots :
             ProfileCallback(r, err, itemRoot)
        \/ \E err \in BOOLEAN : DbGetCallback(r, err)
        \/ \E reply \in {"ok", "down", "lost"} : StoreInsert(r, reply)
        \/ InsertCallback(r)

Spec == Init /\ [][Next]_vars

\* A store that holds one earlier submission, made for session owner.
StoreWith(owner, itemRoot) ==
    [s \in Sessions |->
       IF s = owner
       THEN Doc(1, s, "text", JSONstringify(Profile(itemRoot)))
       ELSE Undefined]

\* The GET handlers keep no state: a run answers one request.
InitDescription ==
    /\ \E owner \in Sessions, itemRoot \in ShapeRoots(MaxNodes) \cup PctRoots :
         db = StoreWith(owner, itemRoot)
    /\ req = [r \in 1..MaxReq |-> IdleReq]
    /\ out = NoOut

NextDescription ==
    \E s \in Sessions, err \in BOOLEAN : out = NoOut /\ GetDescription(s, err)

SpecDescription == InitDescription /\ [][NextDescription]_vars

InitGraph ==
    /\ \E itemRoot \in ShapeRoots(MaxNodes) \cup WideRoots(MaxWide) : db = StoreWith("s1", itemRoot)
    /\ req = [r \in 1..MaxReq |-> IdleReq]
    /\ out = NoOut

NextGraph ==
    \E s \in Sessions, id \in WatsonIds, err \in BOOLEAN :
        out = NoOut /\ GetGraph(s, id, err)

SpecGraph == InitGraph /\ [][NextGraph]_vars

(***************************************************************************)
(* Positions in a profile forest, used to state the claims                 *)
(***************************************************************************)
RECURSIVE Paths(_)
\* The positions of the nodes below itemRoot: <<i>> is its i-th child,
\* <<i, j>> that child's j-th child, and so on.
Paths(itemRoot) ==
    IF itemRoot.type # "array" THEN {}
    ELSE UNION { {<<i>>} \cup {<<i>> \o q : q \in Paths(itemRoot.elems[i].children)} :
                   i \in 1..Len(itemRoot.elems) }

RECURSIVE NodeAt(_, _)
NodeAt(itemRoot, p) ==
    IF Len(p) = 1 THEN itemRoot.elems[p[1]]
    ELSE NodeAt(itemRoot.elems[p[1]].children, Tail(p))

\* p comes before q in depth-first pre-order: p is an ancestor of q, or p
\* branches off to an earlier sibling.
Before(p, q) ==
    LET n    == IF Len(p) < Len(q) THEN Len(p) ELSE Len(q)
        diff == {k \in 1..n : p[k] # q[k]}
    IN  IF diff = {} THEN Len(p) < Len(q)
        ELSE LET k == CHOOSE x \in diff : \A y \in diff : x <= y
             IN  p[k] < q[k]

\* The place of p among the positions P taken in pre-order.
Rank(P, p) == Cardinality({q \in P : Before(q, p)}) + 1

\* item is the display item of node, found at nesting level depth.
ItemOfNode(item, node, depth) ==
    /\ item.id = node.id
    /\ item.name = node.name
    /\ item.type = ToString(depth)

Described == out.route = "getDescription" /\ out.status = 200

DescribedRoot == out.insights.tree.children

AllowList ==
    {"personality", "Openness", "Conscientiousness", "Extraversion",
     "Agreeableness", "Neuroticism", "needs", "values"}

(***************************************************************************)
(* Claims about /getDescription, checked under SpecDescription             *)
(***************************************************************************)
\* C1: parseChildren(tree, 0) emits one item per node in depth-first
\* pre-order, and the sequence getDescription returns is that sequence
\* without the depth-2 items, the others in the same order; an empty or
\* absent children list gives an empty sequence.
C1_PreOrderThenFilter ==
    Described =>
        LET P == Paths(DescribedRoot)
            V == {p \in P : Len(p) # 2}
        IN  /\ Len(out.parsed) = Cardinality(P)
            /\ \A p \in P :
                 ItemOfNode(out.parsed[Rank(P, p)], NodeAt(DescribedRoot, p), Len(p))
            /\ Len(out.items) = Cardinality(V)
            /\ \A p \in V :
                 ItemOfNode(out.items[Rank(V, p)], NodeAt(DescribedRoot, p), Len(p))
            /\ (DescribedRoot = Undefined \/ DescribedRoot = Arr(<<>>)) => out.items = <<>>

C1_Witness ==
    /\ Described
    /\ Len(out.parsed) = 4
    /\ Len(out.items) = 3
    /\ out.parsed[2].type = "2"
    /\ out.parsed[3].type = "3"
    /\ out.parsed[4].type = "1"
    /\ out.parsed[1].id # out.parsed[4].id
    /\ out.items[3].id = out.parsed[4].id

\* C2: the returned sequence holds no item tagged "2", and holds every node
\* of every other nesting level.
C2_NoDepthTwoOthersKept ==
    Described =>
        LET P == Paths(DescribedRoot)
        IN  /\ \A k \in 1..Len(out.items) : out.items[k].type # "2"
            /\ \A d \in {Len(p) : p \in P} \ {2} :
                 \A l \in Labels :
                    Cardinality({k \in 1..Len(out.items) :
                                   /\ out.items[k].type = ToString(d)
                                   /\ out.items[k].id = l.id}) =
                    Cardinality({p \in P : /\ Len(p) = d
                                           /\ NodeAt(DescribedRoot, p).id = l.id})

C2_Witness ==
    /\ Described
    /\ Len(out.parsed) = 4
    /\ out.parsed[2].type = "2"
    /\ out.parsed[4].type = "4"
    /\ Len(out.items) = 3
    /\ out.items[2].type = "3"
    /\ out.items[3].type = "4"

GraphURLPresent(item) == item.graphURL # Undefined

\* C6 as stated: graphURL is present exactly for the ids of the allow-list
\* and showGraph is the boolean saying whether graphURL is present.
C6_ShowGraphBoolean ==
    Described =>
        \A k \in 1..Len(out.items) :
            LET item == out.items[k]
            IN  /\ GraphURLPresent(item) <=> item.id \in AllowList
                /\ item.showGraph = Bool(GraphURLPresent(item))

\* C6 amended: graphURL is present exactly for the ids of the allow-list
\* and showGraph is the string "true" when graphURL is present and the
\* string "false" otherwise.
C6_ShowGraphString ==
    Described =>
        \A k \in 1..Len(out.items) :
            LET item == out.items[k]
            IN  /\ GraphURLPresent(item) <=> item.id \in AllowList
                /\ item.showGraph =
                     (IF GraphURLPresent(item) THEN Str("true") ELSE Str("false"))

C6_Witness ==
    /\ Described
    /\ \E k \in 1..Len(out.items) :
         out.items[k].id = "needs" /\ out.items[k].showGraph = Str("true")
    /\ \E k \in 1..Len(out.items) :
         out.items[k].id = "Zeal" /\ out.items[k].showGraph = Str("false")

\* C7 as stated: an allow-listed item's graphURL is
\* baseURL + "/getGraph/" + id + "?sessionId=" + sessionID.
C7_GraphURLNoSlash ==
    Described =>
        \A k \in 1..Len(out.items) :
            out.items[k].id \in AllowList =>
                out.items[k].graphURL =
                    Str(baseURL \o "/getGraph/" \o out.items[k].id
                                \o "?sessionId=" \o out.sessionId)

\* C7 amended: an allow-listed item's graphURL is
\* baseURL + "/getGraph/" + id + "/?sessionId=" + sessionID, with the
\* session id of the requesting call.
C7_GraphURLWithSlash ==
    Described =>
        \A k \in 1..Len(out.items) :
            out.items[k].id \in AllowList =>
                out.items[k].graphURL =
                    Str(baseURL \o "/getGraph/" \o out.items[k].id
                                \o "/?sessionId=" \o out.sessionId)

C7_Witness ==
    /\ Described
    /\ out.sessionId = "s2"
    /\ Len(out.items) = 1
    /\ out.items[1].graphURL = Str("http://app/getGraph/Openness/?sessionId=s2")

\* p * 100 with exactly two decimals and a "%", for p = n / PctScale.
PercentText(n) ==
    LET h == (n * 10000) \div PctScale
    IN  ToString(h \div 100) \o "." \o ToString((h \div 10) % 10)
                             \o ToString(h % 10) \o "%"

\* C8: an item's value is absent exactly when its node's percentage is
\* absent; a percentage anywhere in [0, 1], both ends included, gives the
\* two-decimal text followed by "%".
C8_ValueIffPercentage ==
    Described =>
        LET V == {p \in Paths(DescribedRoot) : Len(p) # 2}
        IN  \A p \in V :
              LET node == NodeAt(DescribedRoot, p)
                  item == out.items[Rank(V, p)]
              IN  /\ (item.value = Undefined) <=> (node.percentage = Undefined)
                  /\ node.percentage.type = "number" =>
                        item.value = Str(PercentText(node.percentage.num))

(***************************************************************************)
(* Claims about /getGraph/:watsonId, checked under SpecGraph               *)
(***************************************************************************)
\* A getGraph request that found a stored profile.
Charted == out.route = "getGraph" /\ out.insights # Undefined

ChartedRoot == out.insights.tree.children

\* The positions of the nodes whose id is the requested one.
Matches == {p \in Paths(ChartedRoot) : NodeAt(ChartedRoot, p).id = out.watsonId}

\* The first of them in depth-first pre-order.
FirstMatch == CHOOSE p \in Matches : \A q \in Matches : q = p \/ Before(p, q)

ChildrenOf(node) == IF node.children.type = "array" THEN node.children.elems ELSE <<>>

\* C3: getChildWithId resolves the first node in depth-first pre-order whose
\* id is the target (the node itself or, unwrapped, a child of it), also
\* when several nodes carry the id, and returns undefined exactly when no
\* node carries it.
C3_FirstMatchInPreOrder ==
    Charted =>
        /\ (out.child = Undefined) <=> (Matches = {})
        /\ Matches # {} =>
             LET m == NodeAt(ChartedRoot, FirstMatch)
             IN  \/ out.child = m
                 \/ \E k \in 1..Len(ChildrenOf(m)) : out.child = ChildrenOf(m)[k]

C3_Witness ==
    /\ Charted
    /\ Cardinality(Matches) >= 2
    /\ \E p \in Matches :
         LET n == NodeAt(ChartedRoot, p)
         IN  /\ p # FirstMatch
             /\ Before(FirstMatch, p)
             /\ n # NodeAt(ChartedRoot, FirstMatch)
             /\ out.child # n
             /\ \A k \in 1..Len(ChildrenOf(n)) : out.child # ChildrenOf(n)[k]
    /\ out.child # Undefined

\* C4: a matched node with exactly one child is returned as that child, and
\* a matched node with no children, no children property or several children
\* is returned as it is; the single child is returned as it is even when it
\* has exactly one child itself.
C4_UnwrapOnce ==
    (Charted /\ Matches # {}) =>
        LET m == NodeAt(ChartedRoot, FirstMatch)
        IN  IF Len(ChildrenOf(m)) = 1
            THEN out.child = ChildrenOf(m)[1]
            ELSE out.child = m

C4_Witness ==
    /\ Charted
    /\ Matches # {}
    /\ LET m == NodeAt(ChartedRoot, FirstMatch)
       IN  /\ Len(ChildrenOf(m)) = 1
           /\ Len(ChildrenOf(ChildrenOf(m)[1])) = 1
           /\ out.child = ChildrenOf(m)[1]
           /\ out.child # ChildrenOf(ChildrenOf(m)[1])[1]

\* C5: the getGraph flow never raises: it ends with chart slices or with the
\* not-found outcome.
C5_GetGraphNeverRaises ==
    out.route = "getGraph" =>
        /\ out.raised = ""
        /\ out.status \in {200, 404}

ValidReq(q) == q.sessionId # Undefined /\ Truthy(q.form) /\ Truthy(q.form.content)

\* The step is the store's write for request r: r is valid, its analysis
\* returned a profile, and the document written holds r's content and
\* response.
WriteOf(r) ==
    /\ req[r].pc = "insert"
    /\ req'[r].pc = "inserted"
    /\ ValidReq(req[r])
    /\ ~req[r].profileErr
    /\ req[r].response # Undefined
    /\ LET s == req[r].sessionId.str
       IN  /\ \A t \in Sessions \ {s} : db'[t] = db[t]
           /\ db'[s] # Undefined
           /\ db'[s].content = req[r].form.content.str
           /\ db'[s].response = req[r].response

\* The answers given so far are the right ones: an answered request is
\* finished; one without session id or content, or whose analysis failed,
\* got 400 and never reached the store; one that got 200 had its insert
\* completed without error; only valid, analysed requests reach the store.
AnswersRight ==
    \A r \in 1..MaxReq :
        /\ req[r].res # Undefined =>
             /\ req[r].pc = "done"
             /\ (~ValidReq(req[r]) \/ req[r].profileErr) =>
                    /\ req[r].res.status = 400
                    /\ req[r].insert = "none"
                    /\ req[r].doc = Undefined
             /\ req[r].res.status = 200 =>
                    /\ ValidReq(req[r])
                    /\ req[r].response # Undefined
                    /\ req[r].insert = "ok"
        /\ (req[r].pc \in {"insert", "inserted"} \/ req[r].insert # "none") =>
             ValidReq(req[r]) /\ ~req[r].profileErr

\* C10: in every interleaving the store is written only for a request whose
\* validation passed and whose analysis returned; a request without session
\* id or content, or whose analysis failed, writes nothing and is answered
\* with 400; 200 is sent only once the store insert of that request's
\* content and response completed without error.
C10_WriteOnlyAfterValidAnalysis ==
    /\ AnswersRight
    /\ [][ /\ db' # db => \E r \in 1..MaxReq : WriteOf(r)
           /\ \A r \in 1..MaxReq :
                (req[r].insert # "ok" /\ req'[r].insert = "ok") => WriteOf(r)
           /\ AnswersRight' ]_vars

C10_Witness ==
    \E r1, r2 \in 1..MaxReq :
        /\ r1 # r2
        /\ req[r1].pc = "done" /\ req[r1].res.status = 200
        /\ req[r2].pc = "done" /\ req[r2].res.status = 400
        /\ req[r2].insert = "error"
        /\ req[r1].sessionId = req[r2].sessionId
        /\ db[req[r1].sessionId.str].response = req[r1].response
        /\ req[r2].response # req[r1].response

====
